---- MODULE Spec2Model ----
(***************************************************************************)
(* netscape-cookie: the line parser `parse` (src/src/lib.rs) and the       *)
(* conversion of a parsed record into a cookie::Cookie                     *)
(* (src/src/feature_cookie.rs).                                            *)
(*                                                                         *)
(* Text is a sequence of bytes.  An ASCII byte is written as the string of *)
(* its character ("a", "\t", "\n"); the two bytes of a two-byte UTF-8      *)
(* character are written "C3" (lead byte) and "A9" (continuation byte).    *)
(* Integers of the program are 64 bits wide; they are kept as sequences of *)
(* decimal digits, most significant first, without leading zeros, so that  *)
(* 2^64 and 2^63 keep their real values.                                   *)
(***************************************************************************)
EXTENDS Integers, Sequences, FiniteSets

VARIABLES bytes, pos, buf, cookies, ret, ext

vars == <<bytes, pos, buf, cookies, ret, ext>>

(***************************************************************************)
(* Bounds of the checked inputs.                                           *)
(***************************************************************************)
\* lines of the small pool that precede the varied line of an input
MaxLead == 1
\* fields a varied line has beyond the seven of a record
MaxExtra == 1

(***************************************************************************)
(* Bytes and strings.                                                      *)
(***************************************************************************)
LeadBytes == {"C3"}
ContBytes == {"A9"}

\* lib.rs:13
HTTP_ONLY_PREFIX == <<"#", "H", "t", "t", "p", "O", "n", "l", "y", "_">>

\* str::starts_with
StartsWith(s, p) == Len(s) >= Len(p) /\ SubSeq(s, 1, Len(p)) = p

\* core::str::from_utf8, for one- and two-byte characters
Utf8Valid(bs) ==
    \A i \in 1..Len(bs) :
        /\ bs[i] \in LeadBytes => (i < Len(bs) /\ bs[i + 1] \in ContBytes)
        /\ bs[i] \in ContBytes => (i > 1 /\ bs[i - 1] \in LeadBytes)

\* str::is_char_boundary(idx), idx a byte offset counted from 0
IsCharBoundary(s, idx) ==
    \/ idx = 0
    \/ idx = Len(s)
    \/ (idx < Len(s) /\ s[idx + 1] \notin ContBytes)

UpperCase == <<"A", "B", "C", "D", "E", "F", "G", "H", "I", "J", "K", "L", "M",
               "N", "O", "P", "Q", "R", "S", "T", "U", "V", "W", "X", "Y", "Z">>
LowerCase == <<"a", "b", "c", "d", "e", "f", "g", "h", "i", "j", "k", "l", "m",
               "n", "o", "p", "q", "r", "s", "t", "u", "v", "w", "x", "y", "z">>

\* str::to_ascii_lowercase: A-Z are mapped, every other byte is kept
ToAsciiLowercase(s) ==
    [i \in 1..Len(s) |->
        IF \E k \in 1..26 : UpperCase[k] = s[i]
        THEN LowerCase[CHOOSE k \in 1..26 : UpperCase[k] = s[i]]
        ELSE s[i]]

\* <bool as FromStr>::from_str: exactly "true" or "false"
ParseBool(s) ==
    IF s = <<"t", "r", "u", "e">> THEN [ok |-> TRUE, v |-> TRUE]
    ELSE IF s = <<"f", "a", "l", "s", "e">> THEN [ok |-> TRUE, v |-> FALSE]
    ELSE [ok |-> FALSE, v |-> FALSE]

\* Split with the empty pieces dropped
RECURSIVE SplitDropEmpty(_)
SplitDropEmpty(s) ==
    IF \E i \in 1..Len(s) : s[i] = "\t"
    THEN LET t == CHOOSE i \in 1..Len(s) :
                      s[i] = "\t" /\ \A j \in 1..(i - 1) : s[j] # "\t"
         IN  (IF t = 1 THEN <<>> ELSE <<SubSeq(s, 1, t - 1)>>)
                 \o SplitDropEmpty(SubSeq(s, t + 1, Len(s)))
    ELSE IF s = <<>> THEN <<>> ELSE <<s>>

\* Split with no piece at all for the empty string
RECURSIVE SplitNoneOnEmpty(_)
SplitNoneOnEmpty(s) ==
    IF s = <<>> THEN <<>>
    ELSE IF \E i \in 1..Len(s) : s[i] = "\t"
    THEN LET t == CHOOSE i \in 1..Len(s) :
                      s[i] = "\t" /\ \A j \in 1..(i - 1) : s[j] # "\t"
             rest == SubSeq(s, t + 1, Len(s))
         IN  <<SubSeq(s, 1, t - 1)>>
                 \o (IF rest = <<>> THEN <<<<>>>> ELSE SplitNoneOnEmpty(rest))
    ELSE <<s>>

\* str::split('\t'): the pieces between the tabs, empty pieces kept; a
\* string without a tab (the empty string too) is one piece
RECURSIVE Split(_)
Split(s) ==
    IF \E i \in 1..Len(s) : s[i] = "\t"
    THEN LET t == CHOOSE i \in 1..Len(s) :
                      s[i] = "\t" /\ \A j \in 1..(i - 1) : s[j] # "\t"
         IN  <<SubSeq(s, 1, t - 1)>> \o Split(SubSeq(s, t + 1, Len(s)))
    ELSE <<s>>

(***************************************************************************)
(* Unsigned decimal numbers of any size, as digit sequences.               *)
(***************************************************************************)
DigitChars == <<"0", "1", "2", "3", "4", "5", "6", "7", "8", "9">>

IsDigit(c) == \E d \in 1..10 : DigitChars[d] = c

DigitOf(c) == (CHOOSE d \in 1..10 : DigitChars[d] = c) - 1

RECURSIVE Norm(_)
Norm(ds) == IF Len(ds) > 0 /\ ds[1] = 0 THEN Norm(Tail(ds)) ELSE ds

\* a <= b, both without leading zeros
RECURSIVE LeqDigits(_, _)
LeqDigits(a, b) ==
    IF Len(a) = 0 THEN TRUE
    ELSE IF a[1] # b[1] THEN a[1] < b[1]
    ELSE LeqDigits(Tail(a), Tail(b))

LeqNat(a, b) ==
    IF Len(a) # Len(b) THEN Len(a) < Len(b) ELSE LeqDigits(a, b)

\* a - b for a >= b
SubNat(a, b) ==
    LET n == Len(a)
        bp == [i \in 1..n |-> IF i <= n - Len(b) THEN 0 ELSE b[i - (n - Len(b))]]
        RECURSIVE Borrow(_)
        Borrow(i) == IF i > n THEN 0
                     ELSE IF a[i] - bp[i] - Borrow(i + 1) < 0 THEN 1 ELSE 0
    IN  Norm([i \in 1..n |-> (a[i] - bp[i] - Borrow(i + 1) + 10) % 10])

\* 2^64 and 2^63 - 1
TWO_64 == <<1, 8, 4, 4, 6, 7, 4, 4, 0, 7, 3, 7, 0, 9, 5, 5, 1, 6, 1, 6>>
U64_MAX == SubNat(TWO_64, <<1>>)
I64_MAX == <<9, 2, 2, 3, 3, 7, 2, 0, 3, 6, 8, 5, 4, 7, 7, 5, 8, 0, 7>>

\* a signed 64-bit value: sign and magnitude
Int64(neg, mag) == [neg |-> neg, mag |-> mag]

\* <u64 as FromStr>::from_str: an optional '+', then one or more digits,
\* the value at most 2^64 - 1
ParseU64(s) ==
    LET digits == IF Len(s) > 0 /\ s[1] = "+" THEN Tail(s) ELSE s
        v == Norm([i \in 1..Len(digits) |-> DigitOf(digits[i])])
    IN  IF Len(digits) = 0 THEN [ok |-> FALSE, v |-> <<>>]
        ELSE IF \E i \in 1..Len(digits) : ~IsDigit(digits[i])
             THEN [ok |-> FALSE, v |-> <<>>]
        ELSE IF ~LeqNat(v, U64_MAX) THEN [ok |-> FALSE, v |-> <<>>]
        ELSE [ok |-> TRUE, v |-> v]

\* `expires as i64`: the same 64 bits read as a signed value
AsI64(v) ==
    IF LeqNat(v, I64_MAX) THEN Int64(FALSE, v)
    ELSE Int64(TRUE, SubNat(TWO_64, v))

(***************************************************************************)
(* Records and results.                                                    *)
(***************************************************************************)
\* chrono 0.4: the seconds NaiveDateTime::from_timestamp accepts run from
\* -262144-01-01T00:00:00 to +262143-12-31T23:59:59
MIN_TIMESTAMP == Int64(TRUE, <<8, 3, 3, 4, 6, 3, 2, 9, 3, 7, 6, 0, 0>>)
MAX_TIMESTAMP == Int64(FALSE, <<8, 2, 1, 0, 2, 9, 8, 4, 1, 2, 7, 9, 9>>)

\* NaiveDateTime::from_timestamp(secs, 0) panics outside that range
TimestampInRange(t) ==
    IF t.neg THEN LeqNat(t.mag, MIN_TIMESTAMP.mag)
    ELSE LeqNat(t.mag, MAX_TIMESTAMP.mag)

\* enum CookieExpires
Session == [tag |-> "Session", secs |-> Int64(FALSE, <<>>), nsecs |-> 0]
DateTime(secs) == [tag |-> "DateTime", secs |-> secs, nsecs |-> 0]

\* lib.rs:118-125
ExpiresOf(v) == IF v = <<>> THEN Session ELSE DateTime(AsI64(v))

\* the outcome of one line: a record, an error, a panic, or nothing
Pushed(c) == [kind |-> "cookie", err |-> "", cookie |-> <<c>>]
Failed(e) == [kind |-> "err", err |-> e, cookie |-> <<>>]
Panicked == [kind |-> "panic", err |-> "", cookie |-> <<>>]
Skipped == [kind |-> "skip", err |-> "", cookie |-> <<>>]

\* TooManyElements looking one field too far
TooManyElementsOffByOne(f) == Len(f) > 8

\* lib.rs:131: split.next().is_some() after the seven fields
TooManyElements(f) == Len(f) > 7

\* lib.rs:98-146, f the pieces of split('\t'): each field is taken and
\* converted in turn, the first failure returns
ParseRecord(http_only, f) ==
    IF Len(f) < 1 THEN Failed("DomainMissing")
    ELSE IF Len(f) < 2 THEN Failed("IncludeSubdomainsMissing")
    ELSE LET include_subdomains == ParseBool(ToAsciiLowercase(f[2])) IN
    IF ~include_subdomains.ok THEN Failed("IncludeSubdomainsInvalid")
    ELSE IF Len(f) < 3 THEN Failed("PathMissing")
    ELSE IF Len(f) < 4 THEN Failed("SecureMissing")
    ELSE LET secure == ParseBool(ToAsciiLowercase(f[4])) IN
    IF ~secure.ok THEN Failed("SecureInvalid")
    ELSE IF Len(f) < 5 THEN Failed("ExpiresMissing")
    ELSE LET expires == ParseU64(f[5]) IN
    IF ~expires.ok THEN Failed("ExpiresInvalid")
    ELSE IF expires.v # <<>> /\ ~TimestampInRange(AsI64(expires.v)) THEN Panicked
    ELSE IF Len(f) < 6 THEN Failed("NameMissing")
    ELSE IF Len(f) < 7 THEN Failed("ValueMissing")
    ELSE IF TooManyElements(f) THEN Failed("TooManyElements")
    ELSE Pushed([http_only |-> http_only,
                 domain |-> f[1],
                 include_subdomains |-> include_subdomains.v,
                 path |-> f[3],
                 secure |-> secure.v,
                 expires |-> ExpiresOf(expires.v),
                 name |-> f[6],
                 value |-> f[7]])

\* StripMarker with the marker left in the line
StripMarkerKept(b, n) ==
    LET s == SubSeq(b, 1, n) IN
    IF StartsWith(s, HTTP_ONLY_PREFIX)
    THEN [http_only |-> TRUE, comment |-> FALSE, s |-> s]
    ELSE [http_only |-> FALSE, comment |-> StartsWith(s, <<"#">>), s |-> s]

\* lib.rs:88-96: the marker is recognised before the comment sign; s is the
\* line without its last byte, and without the marker when it has one
StripMarker(b, n) ==
    LET s == SubSeq(b, 1, n) IN
    IF StartsWith(s, HTTP_ONLY_PREFIX)
    THEN [http_only |-> TRUE, comment |-> FALSE,
          s |-> SubSeq(b, Len(HTTP_ONLY_PREFIX) + 1, n)]
    ELSE [http_only |-> FALSE, comment |-> StartsWith(s, <<"#">>), s |-> s]

\* lib.rs:88-146 for a line of two or more bytes read into b; n is the
\* count of bytes read less one
ParseLine(b, n) ==
    IF ~IsCharBoundary(b, n) THEN Panicked
    ELSE LET m == StripMarker(b, n) IN
         IF m.comment THEN Skipped
         ELSE ParseRecord(m.http_only, Split(m.s))

\* BufRead::read_line on the cursor at byte offset p: the bytes up to and
\* with the next '\n', or to the end of the input; an error when they are
\* not UTF-8
ReadLine(bs, p) ==
    LET end == IF \E i \in (p + 1)..Len(bs) : bs[i] = "\n"
               THEN CHOOSE i \in (p + 1)..Len(bs) :
                        bs[i] = "\n" /\ \A j \in (p + 1)..(i - 1) : bs[j] # "\n"
               ELSE Len(bs)
        chunk == SubSeq(bs, p + 1, end)
    IN  [n |-> Len(chunk), ok |-> Utf8Valid(chunk), line |-> chunk]

\* Result<Vec<Cookie>, ParseError>, "Running" while the loop runs and
\* "Panic" when the call unwinds
Running == [tag |-> "Running", err |-> "", cookies |-> <<>>]
Ok(cs) == [tag |-> "Ok", err |-> "", cookies |-> cs]
Err(e) == [tag |-> "Err", err |-> e, cookies |-> <<>>]
Panic == [tag |-> "Panic", err |-> "", cookies |-> <<>>]

\* parse (lib.rs:74-150) as a function of its input: the loop from byte
\* offset p with the records cs pushed so far
RECURSIVE ParseFrom(_, _, _)
ParseFrom(bs, p, cs) ==
    LET r == ReadLine(bs, p) IN
    IF ~r.ok THEN Err("IoError")
    ELSE IF r.n = 0 THEN Ok(cs)
    ELSE IF r.n = 1 THEN ParseFrom(bs, p + r.n, cs)
    ELSE LET o == ParseLine(r.line, r.n - 1) IN
         IF o.kind = "panic" THEN Panic
         ELSE IF o.kind = "err" THEN Err(o.err)
         ELSE IF o.kind = "skip" THEN ParseFrom(bs, p + r.n, cs)
         ELSE ParseFrom(bs, p + r.n, Append(cs, o.cookie[1]))

parse(bs) == ParseFrom(bs, 0, <<>>)

(***************************************************************************)
(* The conversion into cookie::Cookie (feature_cookie.rs).                 *)
(***************************************************************************)
\* Option<T>
None == <<>>
Some(x) == <<x>>

\* time::OffsetDateTime::from_unix_timestamp
FromUnixTimestamp(secs) == [unix |-> secs]

\* chrono: dt.naive_utc().timestamp()
Timestamp(e) == e.secs

\* From with include_subdomains passed to set_secure
FromSecureSwapped(cc) ==
    [name |-> cc.name,
     value |-> cc.value,
     domain |-> Some(cc.domain),
     expires |-> IF cc.expires.tag = "Session" THEN None
                 ELSE Some(FromUnixTimestamp(Timestamp(cc.expires))),
     http_only |-> Some(cc.http_only),
     path |-> Some(cc.path),
     secure |-> Some(cc.include_subdomains)]

\* feature_cookie.rs:6-25: Cookie::new(name, value), then the setters
From(cc) ==
    [name |-> cc.name,
     value |-> cc.value,
     domain |-> Some(cc.domain),
     expires |-> IF cc.expires.tag = "Session" THEN None
                 ELSE Some(FromUnixTimestamp(Timestamp(cc.expires))),
     http_only |-> Some(cc.http_only),
     path |-> Some(cc.path),
     secure |-> Some(cc.secure)]

(***************************************************************************)
(* The inputs.  An input is up to MaxLead lines of a small pool, then one  *)
(* varied line, then an ending: nothing, one more line, or a last line     *)
(* without its line terminator.                                            *)
(***************************************************************************)
Chars(ds) == [i \in 1..Len(ds) |-> DigitChars[ds[i] + 1]]

RECURSIVE JoinTabs(_)
JoinTabs(f) ==
    IF Len(f) = 0 THEN <<>>
    ELSE IF Len(f) = 1 THEN f[1]
    ELSE f[1] \o <<"\t">> \o JoinTabs(Tail(f))

TextLine(marker, f) ==
    (IF marker THEN HTTP_ONLY_PREFIX ELSE <<>>) \o JoinTabs(f)

BaseFields ==
    << <<"d">>, <<"T", "R", "U", "E">>, <<"/">>, <<"f", "a", "l", "s", "e">>,
       Chars(<<1, 6, 4, 0, 5, 8, 6, 7, 4, 0>>), <<"n">>, <<"v", "w">> >>
    \o [i \in 1..MaxExtra |-> <<"z">>]

\* one field of the base line replaced
Alternatives ==
    { <<1, <<>>>>, <<1, <<"#", "d">>>>, <<1, <<"C3", "A9">>>>, <<1, <<"A9">>>>,
      <<2, <<"F", "a", "l", "s", "e">>>>, <<2, <<"y", "e", "s">>>>, <<2, <<>>>>,
      <<3, <<>>>>,
      <<4, <<"t", "R", "u", "E">>>>, <<4, <<"1">>>>,
      <<5, <<"0">>>>, <<5, <<"+", "0", "5">>>>, <<5, <<>>>>, <<5, <<"-", "1">>>>,
      <<5, <<"1", "x">>>>,
      <<5, Chars(MAX_TIMESTAMP.mag)>>,
      <<5, Chars(<<1, 0, 0, 0, 0, 0, 0, 0, 0, 0, 0, 0, 0, 0>>)>>,
      <<5, Chars(I64_MAX)>>,
      <<5, Chars(SubNat(TWO_64, MIN_TIMESTAMP.mag))>>,
      <<5, Chars(U64_MAX)>>,
      <<5, Chars(TWO_64)>>,
      <<7, <<>>>> }

VariedFields ==
    {BaseFields} \cup {[BaseFields EXCEPT ![a[1]] = a[2]] : a \in Alternatives}

VariedLines ==
    { TextLine(marker, SubSeq(f, 1, k)) \o <<"\n">> :
        marker \in BOOLEAN, f \in VariedFields, k \in 1..(7 + MaxExtra) }

GoodLine ==
    TextLine(FALSE, << <<"e">>, <<"f", "a", "l", "s", "e">>, <<"/">>,
                       <<"t", "r", "u", "e">>, <<"0">>, <<"m">>, <<"u">> >>)
        \o <<"\n">>
BadLine == <<"e", "\t", "T", "R", "U", "E", "\n">>
CommentLine == <<"#", " ", "c", "\n">>

SmallPool == {GoodLine, BadLine, CommentLine}

RECURSIVE Leads(_)
Leads(k) ==
    IF k = 0 THEN {<<>>}
    ELSE Leads(k - 1) \cup {l \o x : l \in Leads(k - 1), x \in SmallPool}

Endings ==
    { <<>>, GoodLine, BadLine,
      <<"x">>,
      TextLine(FALSE, SubSeq(BaseFields, 1, 7)),
      <<"d", "\t", "T", "R", "U", "E", "\t">>,
      <<"d", "C3", "A9">> }

Inputs ==
    { l \o v \o e : l \in Leads(MaxLead), v \in VariedLines, e \in Endings }

(***************************************************************************)
(* parse (lib.rs:74-150), one action for each way an iteration of its loop *)
(* ends, and the conversion of the records it returned.                    *)
(***************************************************************************)
Init ==
    /\ bytes \in Inputs
    /\ pos = 0
    /\ buf = <<>>
    /\ cookies = <<>>
    /\ ret = Running
    /\ ext = <<>>

\* read_line returned Ok(0): break, and Ok(cookies) is returned
Eof ==
    /\ ret = Running
    /\ LET r == ReadLine(bytes, pos) IN
        /\ r.ok /\ r.n = 0
        /\ buf' = <<>>
        /\ ret' = Ok(cookies)
    /\ UNCHANGED <<bytes, pos, cookies, ext>>

\* read_line returned an error: `?` returns IoError
ReadError ==
    /\ ret = Running
    /\ LET r == ReadLine(bytes, pos) IN
        /\ ~r.ok
        /\ pos' = pos + r.n
        /\ buf' = <<>>
        /\ ret' = Err("IoError")
    /\ UNCHANGED <<bytes, cookies, ext>>

\* one byte was read: continue
OneByte ==
    /\ ret = Running
    /\ LET r == ReadLine(bytes, pos) IN
        /\ r.ok /\ r.n = 1
        /\ pos' = pos + r.n
        /\ buf' = r.line
    /\ UNCHANGED <<bytes, cookies, ret, ext>>

\* a comment line: continue
Comment ==
    /\ ret = Running
    /\ LET r == ReadLine(bytes, pos) IN
        /\ r.ok /\ r.n > 1
        /\ ParseLine(r.line, r.n - 1).kind = "skip"
        /\ pos' = pos + r.n
        /\ buf' = r.line
    /\ UNCHANGED <<bytes, cookies, ret, ext>>

\* a record is pushed
Record ==
    /\ ret = Running
    /\ LET r == ReadLine(bytes, pos) IN
        /\ r.ok /\ r.n > 1
        /\ ParseLine(r.line, r.n - 1).kind = "cookie"
        /\ pos' = pos + r.n
        /\ buf' = r.line
        /\ cookies' = Append(cookies, ParseLine(r.line, r.n - 1).cookie[1])
    /\ UNCHANGED <<bytes, ret, ext>>

\* a field is missing or invalid, or there are too many: Err is returned
Reject ==
    /\ ret = Running
    /\ LET r == ReadLine(bytes, pos) IN
        /\ r.ok /\ r.n > 1
        /\ ParseLine(r.line, r.n - 1).kind = "err"
        /\ pos' = pos + r.n
        /\ buf' = r.line
        /\ ret' = Err(ParseLine(r.line, r.n - 1).err)
    /\ UNCHANGED <<bytes, cookies, ext>>

\* the slice &buf[..n] or from_timestamp panics
Abort ==
    /\ ret = Running
    /\ LET r == ReadLine(bytes, pos) IN
        /\ r.ok /\ r.n > 1
        /\ ParseLine(r.line, r.n - 1).kind = "panic"
        /\ pos' = pos + r.n
        /\ buf' = r.line
        /\ ret' = Panic
    /\ UNCHANGED <<bytes, cookies, ext>>

\* the caller converts the next returned record
Convert ==
    /\ ret.tag = "Ok"
    /\ Len(ext) < Len(ret.cookies)
    /\ ext' = Append(ext, From(ret.cookies[Len(ext) + 1]))
    /\ UNCHANGED <<bytes, pos, buf, cookies, ret>>

Next ==
    \/ Eof
    \/ ReadError
    \/ OneByte
    \/ Comment
    \/ Record
    \/ Reject
    \/ Abort
    \/ Convert

Spec == Init /\ [][Next]_vars

(***************************************************************************)
(* The text of the input as the claims read it: lines are cut at the       *)
(* positions of '\n' and fields at the positions of '\t', by counting.     *)
(***************************************************************************)
SepsIn(s, sep) == {i \in 1..Len(s) : s[i] = sep}

NumPieces(s, sep) == Cardinality(SepsIn(s, sep)) + 1

NthSep(s, sep, k) ==
    CHOOSE i \in SepsIn(s, sep) :
        Cardinality({j \in SepsIn(s, sep) : j < i}) = k - 1

PieceOf(s, sep, i) ==
    LET a == IF i = 1 THEN 0 ELSE NthSep(s, sep, i - 1)
        b == IF i = NumPieces(s, sep) THEN Len(s) + 1 ELSE NthSep(s, sep, i)
    IN  SubSeq(s, a + 1, b - 1)

NumFields(c) == NumPieces(c, "\t")
Field(c, i) == PieceOf(c, "\t", i)

Terminated(b) == Len(b) > 0 /\ b[Len(b)] = "\n"
Content(b) == SubSeq(b, 1, Len(b) - 1)
HasMarker(c) == StartsWith(c, HTTP_ONLY_PREFIX)
Body(c) == IF HasMarker(c) THEN SubSeq(c, Len(HTTP_ONLY_PREFIX) + 1, Len(c)) ELSE c
IsComment(c) == StartsWith(c, <<"#">>) /\ ~HasMarker(c)
IsData(c) == c # <<>> /\ ~IsComment(c)

\* the terminated lines of an input, without their terminators
TerminatedLines(bs) ==
    [i \in 1..(NumPieces(bs, "\n") - 1) |-> PieceOf(bs, "\n", i)]

\* an input without the bytes that follow its last '\n'
WithoutTail(bs) ==
    IF SepsIn(bs, "\n") = {} THEN <<>>
    ELSE SubSeq(bs, 1, NthSep(bs, "\n", NumPieces(bs, "\n") - 1))

IsBoolText(f) ==
    ToAsciiLowercase(f) \in {<<"t", "r", "u", "e">>, <<"f", "a", "l", "s", "e">>}

\* the number a field of decimal digits (after an optional '+') denotes
NatOf(f) ==
    LET ds == IF Len(f) > 0 /\ f[1] = "+" THEN Tail(f) ELSE f
    IN  Norm([i \in 1..Len(ds) |-> DigitOf(ds[i])])

\* a non-negative integer in decimal digits that 64 bits hold
IsNonNegInt(f) ==
    /\ Len(f) > 0
    /\ \A i \in 1..Len(f) : IsDigit(f[i])
    /\ LeqNat(NatOf(f), U64_MAX)

WellFormedData(c) ==
    LET b == Body(c) IN
    /\ NumFields(b) = 7
    /\ IsBoolText(Field(b, 2))
    /\ IsBoolText(Field(b, 4))
    /\ IsNonNegInt(Field(b, 5))

WellFormedLine(c) == c = <<>> \/ IsComment(c) \/ WellFormedData(c)

MissingKinds ==
    <<"DomainMissing", "IncludeSubdomainsMissing", "PathMissing", "SecureMissing",
      "ExpiresMissing", "NameMissing", "ValueMissing">>

ErrorKinds ==
    {"IoError", "DomainMissing", "IncludeSubdomainsMissing",
     "IncludeSubdomainsInvalid", "PathMissing", "SecureMissing", "SecureInvalid",
     "ExpiresMissing", "ExpiresInvalid", "NameMissing", "ValueMissing",
     "TooManyElements"}

\* the fields present among the 2nd, 4th and 5th of a line's k fields all
\* convert: booleans in any letter case, and a u64 that is 0 or a
\* timestamp the date library holds
PresentFieldsConvert(b) ==
    LET k == NumFields(b) IN
    /\ k >= 2 => IsBoolText(Field(b, 2))
    /\ k >= 4 => IsBoolText(Field(b, 4))
    /\ k >= 5 => /\ ParseU64(Field(b, 5)).ok
                 /\ \/ NatOf(Field(b, 5)) = <<>>
                    \/ TimestampInRange(AsI64(NatOf(Field(b, 5))))

(***************************************************************************)
(* The claims.                                                             *)
(***************************************************************************)

\* C1 (as stated): for an input of valid text whose lines all end with a
\* newline and are each empty, a comment, or a data line of 7 fields with
\* boolean 2nd and 4th fields and a non-negative integer 5th field, parse
\* returns Ok with one record per data line, in file order, whose domain,
\* path, name and value are the line's 1st, 3rd, 6th and 7th fields.
C1_WellFormedInputParses ==
    LET lines == TerminatedLines(bytes)
        data == SelectSeq(lines, IsData)
    IN  ( /\ ret.tag # "Running"
          /\ (bytes = <<>> \/ Terminated(bytes))
          /\ Utf8Valid(bytes)
          /\ \A i \in 1..Len(lines) : WellFormedLine(lines[i]) )
        => /\ ret.tag = "Ok"
           /\ Len(ret.cookies) = Len(data)
           /\ \A i \in 1..Len(data) :
                /\ ret.cookies[i].domain = Field(Body(data[i]), 1)
                /\ ret.cookies[i].path = Field(Body(data[i]), 3)
                /\ ret.cookies[i].name = Field(Body(data[i]), 6)
                /\ ret.cookies[i].value = Field(Body(data[i]), 7)

\* C2 (as stated): when some line of the input is malformed, parse returns
\* an error and no record, and the error is raised at the first malformed
\* line: the scan has stopped at the end of that line.
C2_FirstMalformedLineAborts ==
    LET lines == TerminatedLines(bytes)
        bad == {i \in 1..Len(lines) :
                    ~Utf8Valid(lines[i]) \/ ~WellFormedLine(lines[i])}
    IN  (ret.tag # "Running" /\ bad # {})
        => LET first == CHOOSE i \in bad : \A j \in bad : i <= j IN
           /\ ret.tag = "Err"
           /\ ret.err \in ErrorKinds
           /\ ret.cookies = <<>>
           /\ pos = NthSep(bytes, "\n", first)

\* C3 (as stated): when the input ends with a line that has no terminator,
\* the result of parse is the result of parsing the input without that
\* line.
C3_UnterminatedTailIgnored ==
    (ret.tag # "Running" /\ bytes # <<>> /\ ~Terminated(bytes))
        => ret = parse(WithoutTail(bytes))

\* C4 (as stated): a terminated, non-comment, non-empty line with k < 7
\* fields after the marker is stripped returns the missing-field error of
\* field k+1, whatever the k fields hold.
C4_MissingFieldWhateverContents ==
    (Terminated(buf) /\ IsData(Content(buf)) /\ NumFields(Body(Content(buf))) < 7)
        => ret = Err(MissingKinds[NumFields(Body(Content(buf))) + 1])

\* C4 (amended): such a line returns the missing-field error of field k+1
\* when every field present among the 2nd, 4th and 5th converts; when one
\* of them does not, the line fails at that field instead and the
\* missing-field error is not returned.
C4_MissingFieldWhenPresentConvert ==
    (Terminated(buf) /\ IsData(Content(buf)) /\ NumFields(Body(Content(buf))) < 7)
        => LET b == Body(Content(buf))
               missing == Err(MissingKinds[NumFields(b) + 1])
           IN  /\ PresentFieldsConvert(b) => ret = missing
               /\ ~PresentFieldsConvert(b) => (ret.tag \in {"Err", "Panic"} /\ ret # missing)

C4_Witness ==
    /\ Terminated(buf) /\ IsData(Content(buf))
    /\ NumFields(Body(Content(buf))) = 5
    /\ Field(Body(Content(buf)), 1) = <<>>
    /\ PresentFieldsConvert(Body(Content(buf)))
    /\ ret = Err("NameMissing")

\* C5 (as stated): a terminated, non-comment line with 8 or more fields
\* after the marker is stripped returns TooManyElements, whatever the
\* fields hold.
C5_TooManyWhateverContents ==
    (Terminated(buf) /\ IsData(Content(buf)) /\ NumFields(Body(Content(buf))) >= 8)
        => ret = Err("TooManyElements")

\* C5 (amended): such a line returns TooManyElements when its 2nd, 4th and
\* 5th fields convert; in every case the line ends the parse without a
\* record: its extra fields are never dropped to build one.
C5_TooManyWhenFieldsConvert ==
    (Terminated(buf) /\ IsData(Content(buf)) /\ NumFields(Body(Content(buf))) >= 8)
        => /\ PresentFieldsConvert(Body(Content(buf))) => ret = Err("TooManyElements")
           /\ ret.tag \in {"Err", "Panic"}

C5_Witness ==
    /\ Terminated(buf) /\ HasMarker(Content(buf))
    /\ NumFields(Body(Content(buf))) >= 8
    /\ Field(Body(Content(buf)), 7) = <<>>
    /\ ret = Err("TooManyElements")

\* what parsing the terminated line with content L alone does
LineAlone(L) ==
    IF L = <<>> THEN Skipped ELSE ParseLine(L \o <<"\n">>, Len(L))

\* an outcome with the record's http_only set
WithHttpOnly(o) ==
    IF o.kind = "cookie"
    THEN Pushed([o.cookie[1] EXCEPT !.http_only = TRUE])
    ELSE o

\* the step from the unprimed to the primed state has the outcome o
StepHasOutcome(o) ==
    \/ o.kind = "cookie" /\ cookies' = Append(cookies, o.cookie[1]) /\ ret' = Running
    \/ o.kind = "skip" /\ cookies' = cookies /\ ret' = Running
    \/ o.kind = "err" /\ cookies' = cookies /\ ret' = Err(o.err)
    \/ o.kind = "panic" /\ cookies' = cookies /\ ret' = Panic

\* the step reads a terminated line that starts with the marker
ReadsMarkedLine ==
    /\ ret = Running
    /\ pos' > pos
    /\ Terminated(buf')
    /\ HasMarker(Content(buf'))

\* C6 (as stated): for every L, the line '#HttpOnly_' + L has the outcome
\* of the line L alone, with http_only = TRUE in the record.
C6_MarkerOnlySetsHttpOnly ==
    [][ReadsMarkedLine
        => StepHasOutcome(WithHttpOnly(LineAlone(Body(Content(buf')))))]_vars

\* C6 (amended): the same for every L that is not empty and does not
\* start with '#'.
C6_MarkerOnlySetsHttpOnlyOfData ==
    [][(ReadsMarkedLine /\ IsData(Body(Content(buf'))) /\ Body(Content(buf'))[1] # "#")
        => StepHasOutcome(WithHttpOnly(LineAlone(Body(Content(buf')))))]_vars

C6_Witness ==
    /\ ret = Running
    /\ Terminated(buf) /\ HasMarker(Content(buf))
    /\ IsData(Body(Content(buf))) /\ Body(Content(buf))[1] # "#"
    /\ Len(cookies) > 0
    /\ cookies[Len(cookies)].http_only
    /\ cookies[Len(cookies)].domain = Field(Body(Content(buf)), 1)
    /\ LineAlone(Body(Content(buf))).kind = "cookie"

\* C7 (as stated): parse ends with a list of records or with one of the 12
\* error kinds, and in no other way.
C7_ClosedOutcomes ==
    /\ ret.tag \in {"Running", "Ok", "Err"}
    /\ ret.tag = "Err" => ret.err \in ErrorKinds

\* C8 (as stated): a record's expiry is Session exactly when the 5th field
\* of its line is the integer 0, and for a positive t in that field it is
\* the instant t seconds after the epoch.
C8_ExpiryIsTheField ==
    [][(ret = Running /\ Len(cookies') = Len(cookies) + 1)
        => LET c == cookies'[Len(cookies')]
               t == NatOf(Field(Body(buf'), 5))
           IN  /\ c.expires.tag = "Session" <=> t = <<>>
               /\ t # <<>> => c.expires = DateTime(Int64(FALSE, t))]_vars

C10_DomainAlwaysPresent ==
    /\ ret.err # "DomainMissing"
    /\ (Terminated(buf) /\ HasMarker(Content(buf)) /\ Body(Content(buf)) = <<>>)
         => ret = Err("IncludeSubdomainsMissing")

C10_Witness ==
    /\ buf = HTTP_ONLY_PREFIX \o <<"\n">>
    /\ cookies # <<>>
    /\ ret = Err("IncludeSubdomainsMissing")

====
